---- MODULE Spec2Model ----
(***************************************************************************)
(* Contract propagation on the data plane of eventing-kafka-broker:        *)
(* ContractPublisher (accept / close / updateContact) on top of the local  *)
(* Vert.x event bus, and the file watchers that run a callback on every    *)
(* change of the contract file.  On the control plane: the informer event  *)
(* handlers of the sink controller and of the trigger controller.          *)
(***************************************************************************)
EXTENDS Integers, Sequences, FiniteSets, TLC

\* ---------------------------------------------------------------- bounds
MaxGeneration == 1      \* contract generations range over 0..MaxGeneration
MaxResources  == 1      \* a contract carries 0..MaxResources routing entries
MaxPublishes  == 3      \* eventBus.publish calls in one run
MaxPending    == 2      \* callback runs a watch loop may owe at one time
MaxPasses     == 3      \* callback runs of one watcher in one run
MaxWrites     == 2      \* writes of the contract file in one run

Watchers    == {"w1", "w2"}
Subscribers == {"s1"}
Addresses   == {"contract", "other"}

\* the address the publisher was constructed with
address == "contract"

\* lastContract starting at the generation of a Contract that never had its
\* generation set (what a numeric field holds when nothing assigns it)
LastContractOfUnsetContract == [generation |-> 0, resources |-> 0].generation

\* value of lastContract before any contract was processed
InitialLastContract == -1

\* ------------------------------------------------------------- contracts
Contracts == [generation : 0..MaxGeneration, resources : 0..MaxResources]

\* DataPlaneContract.Contract.newBuilder().build(): generation 0, no resources
EmptyContract == [generation |-> 0, resources |-> 0]

\* what the contract file may hold: a serialized contract, bytes that do not
\* parse (parseFromJson returns null), or a file that cannot be read
Payloads ==
    [kind : {"ok"}, contract : Contracts]
        \cup [kind : {"corrupt", "unreadable"}, contract : {EmptyContract}]


\* the contracts other components hand to accept directly
AcceptInputs == {EmptyContract,
                 [generation |-> MaxGeneration, resources |-> MaxResources]}

BadKinds == {"corrupt", "unreadable"}

\* what a call that returned at the interruption check has read: nothing
Interrupted == [kind |-> "interrupted", contract |-> EmptyContract]

\* ------------------------------------------------------- control plane
Sinks == {"sink1", "sink2"}

\* the namespaces and names of the config maps and secrets of the cluster
Namespaces == {"knative-eventing", "default"}
DataPlaneConfigMapNamespace == "knative-eventing"
ContractConfigMapName == "kafka-sink-sinks"
ConfigMapNames == {ContractConfigMapName, "config-features"}
sinkIngressTLSSecretName == "kafka-sink-ingress-server-tls"
SecretNames == {sinkIngressTLSSecretName, "default-token"}

\* the events an informer hands to its handlers
EventKinds == {"add", "update", "delete"}

\* CA bundles; "" is the bundle of a failed or empty read
Bundles == {"", "ca1", "ca2"}

\* the handlers NewController registers, in the order of registration
AllHandlers == {"sink", "configmap", "secretTracker", "sinkDelete",
                "tlsSecret"}

\* no informer event was handled yet
NoEvent == [informer |-> "none", kind |-> "none", accepted |-> FALSE,
            resynced |-> FALSE]

\* the trigger controller's finalizer
FinalizerName == "kafka.triggers.eventing.knative.dev"

\* kafka.BrokerClass, and the values a broker's class annotation may have
\* ("none": the broker has no class annotation)
BrokerClass == "Kafka"
BrokerClasses == {BrokerClass, "MTChannelBasedBroker", "none"}

\* the brokers the cluster may hold, by namespace and name (no broker b2 is
\* ever created)
BrokerKeys == {<<"default", "b1">>, <<"knative-eventing", "b1">>}

\* the triggers of the cluster: namespace, Spec.Broker and the value of the
\* broker-name label (apiseventing.BrokerLabelKey)
TriggerKeys == {"t1", "t2", "t3"}
TriggerMeta ==
    [t1 |-> [namespace |-> "default", broker |-> "b1", label |-> "b1"],
     t2 |-> [namespace |-> "default", broker |-> "b2", label |-> "b2"],
     t3 |-> [namespace |-> "knative-eventing", broker |-> "b1",
             label |-> "b1"]]

\* the Finalizers a trigger may carry; those of a trigger in the store
FinalizerLists == {<<>>, <<"foregroundDeletion">>, <<FinalizerName>>,
                   <<"foregroundDeletion", FinalizerName>>}
StoredFinalizerLists == {<<>>, <<"foregroundDeletion", FinalizerName>>}

\* what an informer hands to a handler: the resource, or on a missed delete
\* a cache.DeletedFinalStateUnknown
ObjectKinds(resource) == {resource, "DeletedFinalStateUnknown"}

\* no handler of the trigger controller has run yet
NoneEnqueued == [t \in TriggerKeys |-> 0]
NoHandler == [handler |-> "none", namespace |-> "", name |-> "",
              accepted |-> FALSE, listErr |-> FALSE]

\* ------------------------------------------------ channel services (Go)
portNumber == 80
tlsPortNumber == 443
MessagingRoleLabel == "messaging.knative.dev/role"
MessagingRole == "kafka-channel"
ChannelSuffix == "-kn-channel"
MaxResourceNameLength == 63

\* the services kept at a time
MaxServices == 2

\* n characters of a name
RECURSIVE Pad(_)
Pad(n) == IF n = 0 THEN "" ELSE "x" \o Pad(n - 1)

\* the lengths of the names fed to MakeChannelServiceName: short, the longest
\* that still takes the suffix, the shortest that does not, and one past the
\* limit of a resource name
NameLengths == {1,
                MaxResourceNameLength - Len(ChannelSuffix),
                MaxResourceNameLength - Len(ChannelSuffix) + 1,
                MaxResourceNameLength + 1}
PlainNames == {"a" \o Pad(n - 1) : n \in NameLengths} \cup {"b"}

\* channel names: the plain ones, and those that themselves end in the suffix
ChannelNames ==
    PlainNames \cup
        {n \o ChannelSuffix :
            n \in {m \in PlainNames :
                      Len(m) + Len(ChannelSuffix) <= MaxResourceNameLength}}

\* kc *v1beta1.KafkaChannel: its ObjectMeta.Namespace and ObjectMeta.Name
KafkaChannels == [namespace : Namespaces, name : ChannelNames]

\* opts ...ServiceOption: none, ExternalService(namespace, service), or an
\* option that returns an error
ServiceOptions == {"none", "ExternalService", "failing"}

\* MakeK8sService returning nil, err
NilService == [name |-> "", namespace |-> "", labels |-> <<>>,
               owner |-> [namespace |-> "", name |-> ""], ports |-> {},
               type |-> ""]

\* MakeK8sService was not called yet
NoMake == [kc |-> [namespace |-> "", name |-> ""], opt |-> "none",
           svc |-> NilService, err |-> FALSE]

\* the consumer of updateContact was not handed any contract yet
NoContract == [generation |-> InitialLastContract, resources |-> 0]

\* no call of updateContact has returned yet
NoRun == [payload |-> [kind |-> "none", contract |-> EmptyContract],
          fresh |-> FALSE, len |-> 0, before |-> InitialLastContract,
          delivered |-> 0, prev |-> NoContract]

VARIABLES
    threads,               \* the threads that call updateContact
    pc,                    \* pc[w]: position of thread w inside updateContact
    contract,              \* contract[w]: payload read by the running call
    previousLastContract,  \* previousLastContract[w]: local of updateContact
    callBefore,            \* callBefore[w]: lastContract when the call began
    lastContract,          \* this.lastContract
    registered,            \* registered[s]: address s consumes, or "none"
    inbox,                 \* inbox[s]: messages queued for s's handler
    received,              \* received[s]: messages s's handler has observed
    npublished,            \* number of eventBus.publish calls so far
    closed,                \* close() has returned
    atClose,               \* subscribers registered at address at the first close()
    afterClose,            \* sources of the publishes made after close() returned
    run,                   \* the latest run of consecutive calls of updateContact
                           \* that read the same payload: the payload, whether
                           \* its generation differed from lastContract when
                           \* the run began, the calls in it (counted up to 2),
                           \* lastContract when the latest of them began,
                           \* the contracts they handed to the consumer, and
                           \* the contract the consumer was handed last
                           \* before the run
    sawBad,                \* a call has returned on a payload it could not
                           \* read or parse
    started,               \* started[w]: watcherThread != null
    watchLoops,            \* watchLoops[w]: watch loops started for watcher w
    startFailed,           \* startFailed[w]: a start() threw IllegalStateException
    watcherClosed,         \* watcherClosed[w]: FileWatcher.close() was called
    pending,               \* pending[w]: callback runs the watch loop owes
    passes,                \* passes[w]: callback runs made so far
    version,               \* number of writes of the contract file so far
    queue,                 \* queue[w]: the changes the watch loop of w was
                           \* notified of and has not yet run its callback
                           \* for, oldest first (0: the run owed by start())
    observed,              \* observed[w]: the changes the callback of w ran
                           \* for, in the order of its runs
    sinkCtl,               \* the sink controller process: "constructing",
                           \* "running" (NewController returned) or
                           \* "terminated" (logger.Fatal)
    fatalLog,              \* the message of the fatal log, "" if none
    implCreated,           \* sinkreconciler.NewImpl was called
    handlers,              \* the informer event handlers registered so far
    sinkStore,             \* the sinks in the store of the sink informer
    workqueue,             \* the sinks enqueued for reconciliation
    proberCa,              \* the root CA bundle the prober probes under
    rotatePc,              \* position of the TLS secret handler
    newCerts,              \* newCerts of the running rotateCACerts call
    lastMake,              \* the last MakeK8sService call: its kc and option,
                           \* the service and whether an error was returned
    services,              \* the services made for the channels that exist,
                           \* each with the channel that owns it
    mustSee,               \* mustSee[k]: the bundle handed to the prober by
                           \* the rotation whose resync enqueued k ("none":
                           \* k is not enqueued by a rotation)
    staleProbe,            \* a reconcile caused by a rotation probed under
                           \* another bundle than the rotated one
    lastEvent,             \* the latest informer event handled: informer,
                           \* kind, whether the handler's filter accepted
                           \* the object, whether globalResync was called
    brokers,               \* brokers[<<namespace, name>>]: what the broker
                           \* lister holds: "absent", or the value of the
                           \* broker's class annotation ("none": it has no
                           \* class annotation)
    triggerStore,          \* the triggers in the store of the trigger informer
    finalizers,            \* finalizers[t]: Finalizers of trigger t
    enqueued,              \* enqueued[t]: calls of impl.Enqueue for trigger t
                           \* made by the latest handler run
    lastHandler            \* the latest handler run of the trigger
                           \* controller: the handler, the object's namespace
                           \* and name, whether the filter accepted it,
                           \* whether listing the triggers failed

threadVars  == <<threads, pc, contract, previousLastContract, callBefore>>
busVars     == <<registered, inbox, received, npublished>>
closeVars   == <<closed, atClose, afterClose>>
callVars    == <<run, sawBad>>
watcherVars == <<started, watchLoops, startFailed, watcherClosed, pending,
                 passes, version, queue, observed>>

sinkVars    == <<sinkCtl, fatalLog, implCreated, handlers, sinkStore,
                 workqueue, proberCa, rotatePc, newCerts, mustSee, staleProbe,
                 lastEvent>>

\* the data plane (Java) and the control plane (Go)
dataVars    == <<threadVars, lastContract, busVars, closeVars, callVars,
                 watcherVars>>
triggerVars == <<brokers, triggerStore, finalizers, enqueued, lastHandler>>
channelVars == <<lastMake, services>>
controlVars == <<sinkVars, triggerVars, channelVars>>

vars == <<dataVars, controlVars>>

\* ------------------------------------------------------------------ Init
InitWith(ts) ==
    /\ threads = ts
    /\ pc = [w \in Watchers |-> "idle"]
    /\ contract = [w \in Watchers |-> Interrupted]
    /\ previousLastContract = [w \in Watchers |-> InitialLastContract]
    /\ callBefore = [w \in Watchers |-> InitialLastContract]
    /\ lastContract = InitialLastContract
    /\ registered = [s \in Subscribers |-> "none"]
    /\ inbox = [s \in Subscribers |-> <<>>]
    /\ received = [s \in Subscribers |-> <<>>]
    /\ npublished = 0
    /\ closed = FALSE
    /\ atClose = {}
    /\ afterClose = {}
    /\ run = NoRun
    /\ sawBad = FALSE
    /\ started = [w \in Watchers |-> FALSE]
    /\ watchLoops = [w \in Watchers |-> 0]
    /\ startFailed = [w \in Watchers |-> FALSE]
    /\ watcherClosed = [w \in Watchers |-> FALSE]
    /\ pending = [w \in Watchers |-> 0]
    /\ passes = [w \in Watchers |-> 0]
    /\ version = 0
    /\ queue = [w \in Watchers |-> <<>>]
    /\ observed = [w \in Watchers |-> <<>>]
    /\ sinkCtl = "constructing"
    /\ fatalLog = ""
    /\ implCreated = FALSE
    /\ handlers = {}
    /\ sinkStore = {}
    /\ workqueue = {}
    /\ proberCa = "unset"
    /\ rotatePc = "idle"
    /\ newCerts = ""
    /\ mustSee = [k \in Sinks |-> "none"]
    /\ staleProbe = FALSE
    /\ lastEvent = NoEvent
    /\ brokers = [b \in BrokerKeys |-> "absent"]
    /\ triggerStore = {}
    /\ finalizers = [t \in TriggerKeys |-> <<>>]
    /\ enqueued = NoneEnqueued
    /\ lastHandler = NoHandler
    /\ lastMake = NoMake
    /\ services = {}

\* one watcher thread calls updateContact (the data plane's wiring)
Init == InitWith({"w1"})

\* the threads of two watchers of the same file call updateContact on one
\* publisher
InitRace == InitWith(Watchers)

\* ------------------------------------------------------------- event bus
\* a bus that hands a message to the handlers of every address
publishEverywhere(a, m) ==
    [s \in Subscribers |->
        IF registered[s] # "none" THEN Append(inbox[s], m) ELSE inbox[s]]

\* EventBus.publish(a, m, localOnly): m is queued for every handler that is
\* registered at address a at this moment; nothing is kept for later joiners
publish(a, m) ==
    [s \in Subscribers |->
        IF registered[s] = a THEN Append(inbox[s], m) ELSE inbox[s]]

\* ContractPublisher.accept: publish the contract on the publisher's address
accept(c, src) ==
    /\ npublished < MaxPublishes
    /\ npublished' = npublished + 1
    /\ inbox' = publish(address, [body |-> c, source |-> src])
    /\ afterClose' = IF closed THEN afterClose \cup {src} ELSE afterClose
    /\ UNCHANGED <<registered, received>>

\* a component registers a local consumer on an address of the bus
Subscribe(s, a) ==
    /\ registered[s] = "none"
    /\ registered' = [registered EXCEPT ![s] = a]
    /\ UNCHANGED <<threadVars, lastContract, inbox, received, npublished,
                   closeVars, callVars, watcherVars>>
    /\ UNCHANGED controlVars

\* the bus runs the handler of s on the oldest queued message
Deliver(s) ==
    /\ inbox[s] # <<>>
    /\ received' = [received EXCEPT ![s] = Append(@, Head(inbox[s]))]
    /\ inbox' = [inbox EXCEPT ![s] = Tail(@)]
    /\ UNCHANGED <<threadVars, lastContract, registered, npublished,
                   closeVars, callVars, watcherVars>>
    /\ UNCHANGED controlVars

\* ------------------------------------------------------------- publisher
\* another component hands a contract to the publisher directly
AcceptCall(c) ==
    /\ accept(c, "accept")
    /\ UNCHANGED <<threadVars, lastContract, closed, atClose, callVars,
                   watcherVars>>
    /\ UNCHANGED controlVars

\* close() that throws when the publisher is already closed
closeStrict ==
    /\ ~closed
    /\ accept(EmptyContract, "close")
    /\ closed' = TRUE
    /\ atClose' = {s \in Subscribers : registered[s] = address}
    /\ UNCHANGED <<threadVars, lastContract, callVars, watcherVars>>
    /\ UNCHANGED controlVars

\* ContractPublisher.close: accept(the empty contract), then return
close ==
    /\ accept(EmptyContract, "close")
    /\ closed' = TRUE
    /\ atClose' = IF closed THEN atClose
                  ELSE {s \in Subscribers : registered[s] = address}
    /\ UNCHANGED <<threadVars, lastContract, callVars, watcherVars>>
    /\ UNCHANGED controlVars

\* --------------------------------------------------------- updateContact
\* the call of w returns: its thread is idle again and its locals are gone
Return(w, payload, before, delivered) ==
    /\ pc' = [pc EXCEPT ![w] = "idle"]
    /\ contract' = [contract EXCEPT ![w] = Interrupted]
    /\ previousLastContract' =
           [previousLastContract EXCEPT ![w] = InitialLastContract]
    /\ callBefore' = [callBefore EXCEPT ![w] = InitialLastContract]
    /\ run' = IF payload = run.payload
              THEN [run EXCEPT !.len = 2, !.before = before,
                               !.delivered = @ + delivered]
              ELSE [payload |-> payload,
                    fresh |-> payload.contract.generation # before,
                    len |-> 1, before |-> before, delivered |-> delivered,
                    prev |-> IF run.delivered > 0 THEN run.payload.contract
                             ELSE run.prev]
    /\ sawBad' = (sawBad \/ payload.kind \in BadKinds)

\* updateContact with the parse failure not checked: the default contract a
\* failed parse leaves behind is recorded as last seen
UpdateCallStoringCorrupt(w, isInterrupted, file) ==
    /\ w \in threads
    /\ pc[w] = "idle"
    /\ IF isInterrupted
       THEN Return(w, Interrupted, lastContract, 0) /\ UNCHANGED lastContract
       ELSE IF file.kind = "ok"
       THEN /\ contract' = [contract EXCEPT ![w] = file]
            /\ pc' = [pc EXCEPT ![w] = "load"]
            /\ callBefore' = [callBefore EXCEPT ![w] = lastContract]
            /\ UNCHANGED <<previousLastContract, callVars, lastContract>>
       ELSE /\ Return(w, file, lastContract, 0)
            /\ lastContract' = EmptyContract.generation
    /\ UNCHANGED <<threads, busVars, closeVars, watcherVars>>
    /\ UNCHANGED controlVars

\* a thread calls publisher.updateContact(file), up to the parsed contract:
\*   if (Thread.interrupted()) return;
\*   contract = parseFromJson(reader);  if (contract == null) return;
\*   catch (IOException e): logged, the call returns
\* isInterrupted: the interrupt flag of the calling thread at this moment
\* file: what the contract file holds at this moment
UpdateCall(w, isInterrupted, file) ==
    /\ w \in threads
    /\ pc[w] = "idle"
    /\ IF isInterrupted
       THEN Return(w, Interrupted, lastContract, 0)
       ELSE IF file.kind = "ok"
       THEN /\ contract' = [contract EXCEPT ![w] = file]
            /\ pc' = [pc EXCEPT ![w] = "load"]
            /\ callBefore' = [callBefore EXCEPT ![w] = lastContract]
            /\ UNCHANGED <<previousLastContract, callVars>>
       ELSE Return(w, file, lastContract, 0)
    /\ UNCHANGED <<threads, lastContract, busVars, closeVars, watcherVars>>
    /\ UNCHANGED controlVars

\* final var previousLastContract = this.lastContract;
UpdateLoad(w) ==
    /\ pc[w] = "load"
    /\ previousLastContract' = [previousLastContract EXCEPT ![w] = lastContract]
    /\ pc' = [pc EXCEPT ![w] = "store"]
    /\ UNCHANGED <<threads, contract, callBefore,
                   lastContract, busVars, closeVars, callVars, watcherVars>>
    /\ UNCHANGED controlVars

\* the generation test written with < instead of ==
UnchangedStrict(generation, previous) == generation < previous

\* no generation test at all
UnchangedNever(generation, previous) == FALSE

\* contract.getGeneration() == previousLastContract
Unchanged(generation, previous) == generation = previous

\* this.lastContract = contract.getGeneration();
\* if (contract.getGeneration() == previousLastContract) return;
UpdateStore(w) ==
    /\ pc[w] = "store"
    /\ lastContract' = contract[w].contract.generation
    /\ IF Unchanged(contract[w].contract.generation, previousLastContract[w])
       THEN Return(w, contract[w], callBefore[w], 0)
       ELSE /\ pc' = [pc EXCEPT ![w] = "accept"]
            /\ UNCHANGED <<contract, previousLastContract, callBefore, callVars>>
    /\ UNCHANGED <<threads, busVars, closeVars, watcherVars>>
    /\ UNCHANGED controlVars

\* contractConsumer.accept(contract);
UpdateAccept(w) ==
    /\ pc[w] = "accept"
    /\ accept(contract[w].contract, "update")
    /\ Return(w, contract[w], callBefore[w], 1)
    /\ UNCHANGED <<threads, lastContract, closed, atClose,
                   watcherVars>>
    /\ UNCHANGED controlVars

\* ------------------------------------------------------ contract storage
\* a watch loop that runs: started and not closed
Running(w) == started[w] /\ ~watcherClosed[w]

\* a write of which only one running watch loop is notified
WriteFileOne ==
    /\ version < MaxWrites
    /\ \A w \in Watchers :
          Running(w) => /\ pending[w] < MaxPending
                        /\ passes[w] + pending[w] < MaxPasses
    /\ version' = version + 1
    /\ \E n \in Watchers :
          /\ Running(n) \/ \A w \in Watchers : ~Running(w)
          /\ pending' = [w \in Watchers |->
                           IF Running(w) /\ w = n
                           THEN pending[w] + 1 ELSE pending[w]]
          /\ queue' = [w \in Watchers |->
                         IF Running(w) /\ w = n
                         THEN Append(queue[w], version') ELSE queue[w]]
    /\ UNCHANGED <<threadVars, lastContract, busVars, closeVars, callVars,
                   started, watchLoops, startFailed, watcherClosed, passes,
                   observed>>
    /\ UNCHANGED controlVars

\* the control plane writes the contract file; every running watch loop is
\* notified of the change
WriteFile ==
    /\ version < MaxWrites
    /\ \A w \in Watchers :
          Running(w) => /\ pending[w] < MaxPending
                        /\ passes[w] + pending[w] < MaxPasses
    /\ version' = version + 1
    /\ pending' = [w \in Watchers |->
                     IF Running(w) THEN pending[w] + 1 ELSE pending[w]]
    /\ queue' = [w \in Watchers |->
                   IF Running(w) THEN Append(queue[w], version')
                   ELSE queue[w]]
    /\ UNCHANGED <<threadVars, lastContract, busVars, closeVars, callVars,
                   started, watchLoops, startFailed, watcherClosed, passes,
                   observed>>
    /\ UNCHANGED controlVars

\* ---------------------------------------------------------- file watcher
\* start() that queues a second watch loop on a started watcher
StartWatcherQueued(w) ==
    /\ watchLoops[w] < 2
    /\ started' = [started EXCEPT ![w] = TRUE]
    /\ watchLoops' = [watchLoops EXCEPT ![w] = @ + 1]
    /\ pending' = [pending EXCEPT ![w] = @ + 1]
    /\ queue' = [queue EXCEPT ![w] = Append(@, 0)]
    /\ UNCHANGED startFailed
    /\ UNCHANGED <<threadVars, lastContract, busVars, closeVars,
                   callVars, watcherClosed, passes, version, observed>>
    /\ UNCHANGED controlVars

\* start() that leaves the first run of the callback to the first change
StartWatcherLazy(w) ==
    /\ IF started[w]
       THEN /\ startFailed' = [startFailed EXCEPT ![w] = TRUE]
            /\ UNCHANGED <<started, watchLoops, pending, queue>>
       ELSE /\ started' = [started EXCEPT ![w] = TRUE]
            /\ watchLoops' = [watchLoops EXCEPT ![w] = @ + 1]
            /\ UNCHANGED <<startFailed, pending, queue>>
    /\ UNCHANGED <<threadVars, lastContract, busVars, closeVars,
                   callVars, watcherClosed, passes, version, observed>>
    /\ UNCHANGED controlVars

\* FileWatcher.start: an already started watcher throws IllegalStateException;
\* otherwise the watch loop starts and owes one initial run of the callback
StartWatcher(w) ==
    /\ IF started[w]
       THEN /\ startFailed' = [startFailed EXCEPT ![w] = TRUE]
            /\ UNCHANGED <<started, watchLoops, pending, queue>>
       ELSE /\ started' = [started EXCEPT ![w] = TRUE]
            /\ watchLoops' = [watchLoops EXCEPT ![w] = @ + 1]
            /\ pending' = [pending EXCEPT ![w] = @ + 1]
            /\ queue' = [queue EXCEPT ![w] = Append(@, 0)]
            /\ UNCHANGED startFailed
    /\ UNCHANGED <<threadVars, lastContract, busVars, closeVars,
                   callVars, watcherClosed, passes, version, observed>>
    /\ UNCHANGED controlVars

\* FileWatcher.close: the watch loop stops
CloseWatcher(w) ==
    /\ started[w]
    /\ ~watcherClosed[w]
    /\ watcherClosed' = [watcherClosed EXCEPT ![w] = TRUE]
    /\ UNCHANGED <<threadVars, lastContract, busVars, closeVars,
                   callVars, started, watchLoops, startFailed, pending, passes,
                   version, queue, observed>>
    /\ UNCHANGED controlVars

\* the watch loop of w runs its callback once, for the oldest change it was
\* notified of
WatcherRun(w) ==
    /\ started[w]
    /\ ~watcherClosed[w]
    /\ pending[w] > 0
    /\ passes[w] < MaxPasses
    /\ pending' = [pending EXCEPT ![w] = @ - 1]
    /\ passes' = [passes EXCEPT ![w] = @ + 1]
    /\ observed' = [observed EXCEPT ![w] = Append(@, Head(queue[w]))]
    /\ queue' = [queue EXCEPT ![w] = Tail(@)]
    /\ UNCHANGED <<threadVars, lastContract, busVars, closeVars,
                   callVars, started, watchLoops, startFailed, watcherClosed,
                   version>>
    /\ UNCHANGED controlVars

\* ------------------------------------------------------- sink controller
\* controller.FilterWithNameAndNamespace(namespace, name)
FilterWithNameAndNamespace(namespace, name, obj) ==
    obj.namespace = namespace /\ obj.name = name

\* controller.FilterWithName(name)
FilterWithName(name, obj) == obj.name = name

\* impl.GlobalResync(sinkInformer.Informer()): every sink of the informer's
\* store is enqueued
globalResync == workqueue \cup sinkStore

\* NewController that only logs the failure of GetOrCreateDataPlaneConfigMap
NewControllerLenient(getOrCreateErr, caCerts, proberErr) ==
    /\ sinkCtl = "constructing"
    /\ fatalLog' = IF getOrCreateErr
                   THEN "Failed to get or create data plane config map"
                   ELSE IF proberErr THEN "Failed to create prober" ELSE ""
    /\ implCreated' = TRUE
    /\ IF proberErr
       THEN /\ sinkCtl' = "terminated"
            /\ UNCHANGED <<handlers, proberCa>>
       ELSE /\ sinkCtl' = "running"
            /\ proberCa' = caCerts
            /\ handlers' = AllHandlers
    /\ UNCHANGED <<sinkStore, workqueue, rotatePc, newCerts, mustSee,
                   staleProbe, lastEvent>>
    /\ UNCHANGED dataVars
    /\ UNCHANGED <<triggerVars, channelVars>>

\* NewController(ctx, watcher, configs), from the first line to return impl:
\*   _, err := reconciler.GetOrCreateDataPlaneConfigMap(ctx)
\*   if err != nil { logger.Fatal(...) }
\*   caCerts, err := reconciler.getCaCerts()        (an error is a warning)
\*   impl := sinkreconciler.NewImpl(...)
\*   reconciler.Prober, err = prober.NewComposite(..., &caCerts)
\*   if err != nil { logger.Fatal(...) }
\*   ... AddEventHandler(...) five times
NewController(getOrCreateErr, caCerts, proberErr) ==
    /\ sinkCtl = "constructing"
    /\ IF getOrCreateErr
       THEN /\ sinkCtl' = "terminated"
            /\ fatalLog' = "Failed to get or create data plane config map"
            /\ UNCHANGED <<implCreated, handlers, proberCa>>
       ELSE IF proberErr
       THEN /\ sinkCtl' = "terminated"
            /\ fatalLog' = "Failed to create prober"
            /\ implCreated' = TRUE
            /\ UNCHANGED <<handlers, proberCa>>
       ELSE /\ sinkCtl' = "running"
            /\ implCreated' = TRUE
            /\ proberCa' = caCerts
            /\ handlers' = AllHandlers
            /\ UNCHANGED fatalLog
    /\ UNCHANGED <<sinkStore, workqueue, rotatePc, newCerts, mustSee,
                   staleProbe, lastEvent>>
    /\ UNCHANGED dataVars
    /\ UNCHANGED <<triggerVars, channelVars>>

\* an event of the sink informer: controller.HandleAll(impl.Enqueue)
SinkEvent(kind, k) ==
    /\ sinkCtl = "running"
    /\ "sink" \in handlers
    /\ IF kind = "add" THEN k \notin sinkStore ELSE k \in sinkStore
    /\ sinkStore' = CASE kind = "add" -> sinkStore \cup {k}
                      [] kind = "update" -> sinkStore
                      [] kind = "delete" -> sinkStore \ {k}
    /\ workqueue' = workqueue \cup {k}
    /\ lastEvent' = [informer |-> "sink", kind |-> kind, accepted |-> TRUE,
                     resynced |-> FALSE]
    /\ UNCHANGED <<sinkCtl, fatalLog, implCreated, handlers, proberCa,
                   rotatePc, newCerts, mustSee, staleProbe>>
    /\ UNCHANGED dataVars
    /\ UNCHANGED <<triggerVars, channelVars>>

\* an event of the config map informer:
\*   FilterFunc: FilterWithNameAndNamespace(DataPlaneConfigMapNamespace,
\*                                          ContractConfigMapName)
\*   Handler: ResourceEventHandlerFuncs{AddFunc: globalResync,
\*                                      DeleteFunc: globalResync}
ConfigMapEvent(kind, obj) ==
    /\ sinkCtl = "running"
    /\ "configmap" \in handlers
    /\ LET accepted == FilterWithNameAndNamespace(
                           DataPlaneConfigMapNamespace, ContractConfigMapName,
                           obj)
           resync == accepted /\ kind \in {"add", "delete"}
       IN  /\ workqueue' = IF resync THEN globalResync ELSE workqueue
           /\ lastEvent' = [informer |-> "configmap", kind |-> kind,
                            accepted |-> accepted, resynced |-> resync]
    /\ UNCHANGED <<sinkCtl, fatalLog, implCreated, handlers, sinkStore,
                   proberCa, rotatePc, newCerts, mustSee, staleProbe>>
    /\ UNCHANGED dataVars
    /\ UNCHANGED <<triggerVars, channelVars>>

\* the TLS secret handler without the call of Prober.RotateRootCaCerts
SecretEventNoRotate(kind, obj, certs) ==
    /\ sinkCtl = "running"
    /\ "tlsSecret" \in handlers
    /\ rotatePc = "idle"
    /\ IF FilterWithName(sinkIngressTLSSecretName, obj)
       THEN /\ newCerts' = certs
            /\ rotatePc' = "resync"
       ELSE UNCHANGED <<newCerts, rotatePc>>
    /\ UNCHANGED <<proberCa, mustSee>>
    /\ UNCHANGED <<sinkCtl, fatalLog, implCreated, handlers, sinkStore,
                   workqueue, staleProbe, lastEvent>>
    /\ UNCHANGED dataVars
    /\ UNCHANGED <<triggerVars, channelVars>>

\* an event of the secret informer, up to the rotation:
\*   FilterFunc: FilterWithName(sinkIngressTLSSecretName)
\*   Handler: HandleAll(rotateCACerts)
\*   newCerts, err := reconciler.getCaCerts()       (an error is a warning)
\*   reconciler.Prober.RotateRootCaCerts(&newCerts)
\* certs: what getCaCerts returns at this moment
SecretEvent(kind, obj, certs) ==
    /\ sinkCtl = "running"
    /\ "tlsSecret" \in handlers
    /\ rotatePc = "idle"
    /\ IF FilterWithName(sinkIngressTLSSecretName, obj)
       THEN /\ newCerts' = certs
            /\ proberCa' = certs
            /\ rotatePc' = "resync"
            /\ mustSee' = [k \in Sinks |->
                             IF mustSee[k] = "none" THEN "none" ELSE certs]
       ELSE UNCHANGED <<newCerts, proberCa, rotatePc, mustSee>>
    /\ UNCHANGED <<sinkCtl, fatalLog, implCreated, handlers, sinkStore,
                   workqueue, staleProbe, lastEvent>>
    /\ UNCHANGED dataVars
    /\ UNCHANGED <<triggerVars, channelVars>>

\* rotateCACerts, last line: globalResync(obj)
RotateResync ==
    /\ rotatePc = "resync"
    /\ workqueue' = globalResync
    /\ mustSee' = [k \in Sinks |->
                     IF k \in sinkStore THEN newCerts ELSE mustSee[k]]
    /\ rotatePc' = "idle"
    /\ newCerts' = ""
    /\ UNCHANGED <<sinkCtl, fatalLog, implCreated, handlers, sinkStore,
                   proberCa, staleProbe, lastEvent>>
    /\ UNCHANGED dataVars
    /\ UNCHANGED <<triggerVars, channelVars>>

\* a worker of impl reconciles an enqueued sink; readiness is probed under
\* the prober's root CA bundle of this moment
Reconcile(k) ==
    /\ sinkCtl = "running"
    /\ implCreated
    /\ k \in workqueue
    /\ workqueue' = workqueue \ {k}
    /\ staleProbe' = (staleProbe
                        \/ (mustSee[k] # "none" /\ mustSee[k] # proberCa))
    /\ mustSee' = [mustSee EXCEPT ![k] = "none"]
    /\ UNCHANGED <<sinkCtl, fatalLog, implCreated, handlers, sinkStore,
                   proberCa, rotatePc, newCerts, lastEvent>>
    /\ UNCHANGED dataVars
    /\ UNCHANGED <<triggerVars, channelVars>>

\* ---------------------------------------------------- trigger controller
\* the Trigger t of the store's universe carrying the finalizers f, as the
\* object an informer hands to a filter or handler
TriggerObject(kind, t, f) ==
    [kind |-> kind, key |-> t, namespace |-> TriggerMeta[t].namespace,
     broker |-> TriggerMeta[t].broker, finalizers |-> f]

\* a test of the first finalizer only
hasFirstFinalizer(fs, finalizerName) ==
    fs # <<>> /\ fs[1] = finalizerName

\* for _, f := range finalizers { if f == finalizerName { return true } }
hasKafkaBrokerTriggerFinalizer(fs, finalizerName) ==
    \E i \in DOMAIN fs : fs[i] = finalizerName

\* lister.Brokers(namespace).Get(name): the class annotation of the broker
\* found ("none": it has none), "absent" when Get returns an error
Get(lister, namespace, name) ==
    IF <<namespace, name>> \in DOMAIN lister
    THEN lister[<<namespace, name>>] ELSE "absent"

\* a filter that accepts the trigger of every broker the lister finds
filterTriggersOfAnyClass(lister, obj) ==
    IF obj.kind # "Trigger" THEN FALSE
    ELSE IF hasKafkaBrokerTriggerFinalizer(obj.finalizers, FinalizerName)
    THEN TRUE
    ELSE Get(lister, obj.namespace, obj.broker) # "absent"

\* filterTriggers(lister)(obj):
\*   trigger, ok := obj.(*eventing.Trigger);  if !ok { return false }
\*   if hasKafkaBrokerTriggerFinalizer(...) { return true }
\*   broker, err := lister.Brokers(trigger.Namespace).Get(trigger.Spec.Broker)
\*   if err != nil { return false }
\*   value, ok := broker.GetAnnotations()[BrokerClassKey]
\*   return ok && value == kafka.BrokerClass
filterTriggers(lister, obj) ==
    IF obj.kind # "Trigger" THEN FALSE
    ELSE IF hasKafkaBrokerTriggerFinalizer(obj.finalizers, FinalizerName)
    THEN TRUE
    ELSE IF Get(lister, obj.namespace, obj.broker) = "absent" THEN FALSE
    ELSE /\ Get(lister, obj.namespace, obj.broker) # "none"
         /\ Get(lister, obj.namespace, obj.broker) = BrokerClass

\* kafka.BrokerClassFilter(): a Broker whose class annotation is the Kafka
\* broker class
BrokerClassFilter(obj) ==
    obj.kind = "Broker" /\ obj.class = BrokerClass

\* enqueueTriggers that lists the triggers of all namespaces
enqueueTriggersEverywhere(obj, listErr) ==
    IF obj.kind = "Broker" /\ ~listErr
    THEN [t \in TriggerKeys |->
            IF t \in triggerStore /\ TriggerMeta[t].label = obj.name
            THEN 1 ELSE 0]
    ELSE NoneEnqueued

\* enqueueTriggers(logger, lister, enqueue)(obj): the calls of enqueue
\*   if broker, ok := obj.(*eventing.Broker); ok {
\*     selector := {BrokerLabelKey: broker.Name}
\*     triggers, err := lister.Triggers(broker.Namespace).List(selector)
\*     if err != nil { logger.Warn(...); return }
\*     for _, trigger := range triggers { enqueue(trigger) } }
enqueueTriggers(obj, listErr) ==
    IF obj.kind = "Broker" /\ ~listErr
    THEN [t \in TriggerKeys |->
            IF /\ t \in triggerStore
               /\ TriggerMeta[t].namespace = obj.namespace
               /\ TriggerMeta[t].label = obj.name
            THEN 1 ELSE 0]
    ELSE NoneEnqueued

\* impl.FilteredGlobalResync(filterTriggers(lister), triggerInformer), and
\* the promotion of a leader with PromoteFilterFunc filterTriggers(lister):
\* impl.Enqueue for every trigger of the store the filter accepts
enqueueFiltered ==
    [t \in TriggerKeys |->
        IF /\ t \in triggerStore
           /\ filterTriggers(brokers, TriggerObject("Trigger", t, finalizers[t]))
        THEN 1 ELSE 0]

\* an event of the broker informer:
\*   FilterFunc: kafka.BrokerClassFilter()
\*   Handler: enqueueTriggers(logger, triggerLister, impl.Enqueue)
\* an update is handled when the old or the new object passes the filter
BrokerEvent(kind, obj, listErr) ==
    /\ <<obj.namespace, obj.name>> \in BrokerKeys
    /\ LET key == <<obj.namespace, obj.name>>
           old == [obj EXCEPT !.class = brokers[key]]
           accepted == IF kind = "update"
                       THEN BrokerClassFilter(old) \/ BrokerClassFilter(obj)
                       ELSE BrokerClassFilter(obj)
       IN  /\ CASE kind = "add" -> brokers[key] = "absent"
                [] kind = "update" -> brokers[key] # "absent"
                                        /\ obj.kind = "Broker"
                [] kind = "delete" -> brokers[key] = obj.class
           /\ brokers' = [brokers EXCEPT ![key] =
                             IF kind = "delete" THEN "absent" ELSE obj.class]
           /\ enqueued' = IF accepted THEN enqueueTriggers(obj, listErr)
                          ELSE NoneEnqueued
           /\ lastHandler' = [handler |-> "broker",
                              namespace |-> obj.namespace, name |-> obj.name,
                              accepted |-> accepted, listErr |-> listErr]
    /\ UNCHANGED <<triggerStore, finalizers>>
    /\ UNCHANGED <<dataVars, sinkVars, channelVars>>

\* an event of the trigger informer:
\*   FilterFunc: filterTriggers(reconciler.BrokerLister)
\*   Handler: controller.HandleAll(impl.Enqueue)
\* f: the Finalizers of the trigger after the event
TriggerEvent(kind, t, f) ==
    /\ LET old == TriggerObject("Trigger", t, finalizers[t])
           new == TriggerObject("Trigger", t, f)
           accepted == CASE kind = "add" -> filterTriggers(brokers, new)
                         [] kind = "update" ->
                               filterTriggers(brokers, old)
                                  \/ filterTriggers(brokers, new)
                         [] kind = "delete" -> filterTriggers(brokers, old)
       IN  /\ CASE kind = "add" -> t \notin triggerStore
                [] kind = "update" -> t \in triggerStore
                [] kind = "delete" -> t \in triggerStore /\ f = <<>>
           /\ triggerStore' = CASE kind = "add" -> triggerStore \cup {t}
                                [] kind = "update" -> triggerStore
                                [] kind = "delete" -> triggerStore \ {t}
           /\ finalizers' = [finalizers EXCEPT ![t] = f]
           /\ enqueued' = [NoneEnqueued EXCEPT ![t] = IF accepted THEN 1 ELSE 0]
           /\ lastHandler' = [handler |-> "trigger",
                              namespace |-> TriggerMeta[t].namespace,
                              name |-> t, accepted |-> accepted,
                              listErr |-> FALSE]
    /\ UNCHANGED brokers
    /\ UNCHANGED <<dataVars, sinkVars, channelVars>>

\* the Kafka feature flags change: globalResync()
TriggerGlobalResync ==
    /\ enqueued' = enqueueFiltered
    /\ lastHandler' = [NoHandler EXCEPT !.handler = "resync"]
    /\ UNCHANGED <<brokers, triggerStore, finalizers>>
    /\ UNCHANGED <<dataVars, sinkVars, channelVars>>

\* this replica is promoted to leader: impl enqueues what PromoteFilterFunc
\* accepts
Promote ==
    /\ enqueued' = enqueueFiltered
    /\ lastHandler' = [NoHandler EXCEPT !.handler = "promote"]
    /\ UNCHANGED <<brokers, triggerStore, finalizers>>
    /\ UNCHANGED <<dataVars, sinkVars, channelVars>>

\* -------------------------------------------------------- specifications
\* the publisher, the threads that call it and the bus
Next ==
    \/ \E w \in Watchers, isInterrupted \in BOOLEAN, file \in Payloads :
          UpdateCall(w, isInterrupted, file)
    \/ \E w \in Watchers : UpdateLoad(w)
    \/ \E w \in Watchers : UpdateStore(w)
    \/ \E w \in Watchers : UpdateAccept(w)
    \/ \E c \in AcceptInputs : AcceptCall(c)
    \/ close
    \/ \E s \in Subscribers, a \in Addresses : Subscribe(s, a)
    \/ \E s \in Subscribers : Deliver(s)

Spec == Init /\ [][Next]_vars

\* the calls of updateContact alone
NextUpdate ==
    \/ \E w \in Watchers, isInterrupted \in BOOLEAN, file \in Payloads :
          UpdateCall(w, isInterrupted, file)
    \/ \E w \in Watchers : UpdateLoad(w)
    \/ \E w \in Watchers : UpdateStore(w)
    \/ \E w \in Watchers : UpdateAccept(w)

\* one thread calls updateContact, one call after the other
SpecUpdate == Init /\ [][NextUpdate]_vars

\* two threads are inside updateContact of one publisher
SpecRace == InitRace /\ [][NextUpdate]_vars

\* the publisher called directly, and the bus
NextBus ==
    \/ \E c \in AcceptInputs : AcceptCall(c)
    \/ close
    \/ \E s \in Subscribers, a \in Addresses : Subscribe(s, a)
    \/ \E s \in Subscribers : Deliver(s)

SpecBus == Init /\ [][NextBus]_vars

\* the event loop runs the handler of every queued message
FairSpecBus ==
    SpecBus /\ \A s \in Subscribers : WF_vars(Deliver(s))

\* the file watchers of the contract file
NextWatcher ==
    \/ WriteFile
    \/ \E w \in Watchers : StartWatcher(w)
    \/ \E w \in Watchers : CloseWatcher(w)
    \/ \E w \in Watchers : WatcherRun(w)

SpecWatcher == Init /\ [][NextWatcher]_vars

\* a running watch loop that owes a run of its callback makes it
FairSpecWatcher ==
    SpecWatcher /\ \A w \in Watchers : WF_vars(WatcherRun(w))

\* the sink controller: construction, informer events, reconciles
ConfigMaps == [namespace : Namespaces, name : ConfigMapNames]
Secrets == [namespace : Namespaces, name : SecretNames]

NextSink ==
    \/ \E getOrCreateErr \in BOOLEAN, caCerts \in Bundles,
          proberErr \in BOOLEAN :
          NewController(getOrCreateErr, caCerts, proberErr)
    \/ \E kind \in EventKinds, k \in Sinks : SinkEvent(kind, k)
    \/ \E kind \in EventKinds, obj \in ConfigMaps : ConfigMapEvent(kind, obj)
    \/ \E kind \in EventKinds, obj \in Secrets, certs \in Bundles :
          SecretEvent(kind, obj, certs)
    \/ RotateResync
    \/ \E k \in Sinks : Reconcile(k)

SpecSink == Init /\ [][NextSink]_vars

\* a handler that was called runs to its end
FairSpecSink == SpecSink /\ WF_vars(RotateResync)

\* the trigger controller: informer events, global resyncs and promotions
BrokerObjects == [kind : ObjectKinds("Broker"), namespace : Namespaces,
                  name : {"b1"}, class : BrokerClasses]

NextTrigger ==
    \/ \E kind \in EventKinds, obj \in BrokerObjects, listErr \in BOOLEAN :
          BrokerEvent(kind, obj, listErr)
    \/ \E kind \in EventKinds, t \in TriggerKeys, f \in StoredFinalizerLists :
          TriggerEvent(kind, t, f)
    \/ TriggerGlobalResync
    \/ Promote

SpecTrigger == Init /\ [][NextTrigger]_vars

\* ------------------------------------------------------ channel services
\* the name is returned without the suffix already when only the suffixed
\* name would be as long as the limit
MakeChannelServiceNameEarly(name) ==
    IF Len(name) + Len(ChannelSuffix) >= MaxResourceNameLength
    THEN name
    ELSE name \o ChannelSuffix

\* if len(name)+len(ChannelSuffix) > MaxResourceNameLength { return name }
\* return fmt.Sprintf("%s%s", name, ChannelSuffix)
MakeChannelServiceName(name) ==
    IF Len(name) + Len(ChannelSuffix) > MaxResourceNameLength
    THEN name
    ELSE name \o ChannelSuffix

\* the service of kc, then every option applied to it; nil when one fails
MakeK8sService(kc, opt) ==
    IF opt = "failing"
    THEN NilService
    ELSE [name |-> MakeChannelServiceName(kc.name),
          namespace |-> kc.namespace,
          labels |-> <<MessagingRoleLabel, MessagingRole>>,
          owner |-> kc,
          ports |-> {portNumber, tlsPortNumber},
          type |-> IF opt = "ExternalService" THEN "ExternalName" ELSE ""]

\* a caller makes the service of channel kc; a service that was made stays
\* until its channel goes
MakeService(kc, opt) ==
    /\ \/ Cardinality(services) < MaxServices
       \/ \E e \in services : e.owner = kc
       \/ opt = "failing"
    /\ lastMake' = [kc |-> kc, opt |-> opt, svc |-> MakeK8sService(kc, opt),
                    err |-> (opt = "failing")]
    /\ services' =
           IF opt = "failing"
           THEN services
           ELSE services \cup
                    {[owner |-> kc,
                      namespace |-> MakeK8sService(kc, opt).namespace,
                      name |-> MakeK8sService(kc, opt).name]}
    /\ UNCHANGED <<dataVars, sinkVars, triggerVars>>

\* the channel is deleted and the service it owns is garbage collected
DeleteChannel(kc) ==
    /\ \E e \in services : e.owner = kc
    /\ services' = {e \in services : e.owner # kc}
    /\ UNCHANGED <<lastMake, dataVars, sinkVars, triggerVars>>

\* MakeK8sService called for channels of any name
NextChannel ==
    \/ \E kc \in KafkaChannels, opt \in ServiceOptions : MakeService(kc, opt)
    \/ \E kc \in KafkaChannels : DeleteChannel(kc)

SpecChannel == Init /\ [][NextChannel]_vars

\* ----------------------------------------------------------------- claims
UpdateMessages(s) ==
    {i \in DOMAIN received[s] : received[s][i].source = "update"}

\* C1: in a run of consecutive updateContact calls that read the same parsed
\* payload, the consumer gets the contract exactly once when the payload's
\* generation was not yet last seen at the start of the run (by the first
\* call of the run), and every later call of the run delivers nothing.
WatcherDedup ==
    run.payload.kind = "ok" =>
        run.delivered = (IF run.fresh THEN 1 ELSE 0)

\* the same fresh payload was fed twice in a row and delivered once
WatcherDedupWitness ==
    /\ run.payload.kind = "ok"
    /\ run.fresh
    /\ run.len = 2
    /\ run.delivered = 1
    /\ npublished = 1

\* C2: once generation G is last seen, a payload of generation <= G is not
\* forwarded and last seen stays G: lastContract never decreases.
StalePayloadIgnored ==
    [][/\ lastContract' >= lastContract
       /\ \A w \in Watchers :
             (pc[w] = "store"
                 /\ contract[w].contract.generation <= previousLastContract[w])
             => pc'[w] # "accept"]_vars

\* C3: the generations a subscriber observes from updateContact never go
\* down: no generation N is observed after a generation M > N.
PerSubscriberOrder ==
    \A s \in Subscribers : \A i, j \in UpdateMessages(s) :
        i < j => received[s][i].body.generation <= received[s][j].body.generation

\* C4: a subscriber observes each generation from updateContact at most once
\* over the whole run.
AtMostOncePerGeneration ==
    \A s \in Subscribers : \A i, j \in UpdateMessages(s) :
        i < j => received[s][i].body.generation # received[s][j].body.generation

\* C5: a call of updateContact on a payload that cannot be read or parsed
\* delivers nothing and leaves lastContract as it was, the calling thread
\* goes on, and a later parsed payload with a generation that is not last
\* seen is delivered.
CorruptPayloadFreezesState ==
    /\ run.payload.kind \in BadKinds =>
          /\ run.delivered = 0
          /\ \A w \in threads :
                /\ pc[w] \in {"idle", "load", "store", "accept"}
                /\ pc[w] # "accept" => lastContract = run.before
    /\ (sawBad /\ run.payload.kind = "ok" /\ run.fresh) => run.delivered = 1

\* after a good contract a corrupt payload was fed, and then a new contract
\* was delivered
CorruptPayloadWitness ==
    /\ sawBad
    /\ run.payload.kind = "ok"
    /\ run.fresh
    /\ run.before # InitialLastContract
    /\ run.delivered = 1
    /\ npublished = 2

\* C6: after close() every subscriber that was registered at that time ends
\* with a contract of zero routing entries as its last delivery.
ShutdownDrain ==
    \A s \in atClose :
        (closed /\ inbox[s] = <<>> /\ \A w \in threads : pc[w] = "idle")
        => received[s][Len(received[s])].body.resources = 0

\* C7: once close() has returned nothing more is published on the bus, neither
\* by a call of updateContact that was in flight nor by a later accept (a
\* repeated close() that publishes the empty contract again is not counted).
NoDeliveryAfterClose ==
    afterClose \cap {"update", "accept"} = {}

\* C8: calls of updateContact that read the same storage content hand the
\* contract to the consumer once, however the calls interleave.
NoDoubleApply ==
    run.payload.kind = "ok" => run.delivered <= 1

\* C9: start() on a started watcher throws IllegalStateException, starts no
\* second watch loop and leaves the first loop and its callback runs alone.
StartTwiceRejected ==
    /\ [](\A w \in Watchers : watchLoops[w] <= 1 /\ (startFailed[w] => started[w]))
    /\ [][\A w \in Watchers :
            (started[w] /\ StartWatcher(w)) =>
                /\ startFailed'[w]
                /\ UNCHANGED <<started, watchLoops, watcherClosed, pending,
                               passes>>]_vars

\* a second start() was rejected and the first loop ran its callback
StartTwiceWitness ==
    \E w \in Watchers :
        startFailed[w] /\ watchLoops[w] = 1 /\ passes[w] = MaxPasses

ChangeReachesEveryWatcher ==
    /\ [][WriteFile =>
             \A w \in Watchers :
                Running(w) => /\ queue'[w] # <<>>
                              /\ queue'[w][Len(queue'[w])] = version']_vars
    /\ [](\A w \in Watchers : \A i, j \in DOMAIN observed[w] :
             i < j => observed[w][i] < observed[w][j])
    /\ \A w \in Watchers : \A n \in 1..MaxWrites :
          (\E i \in DOMAIN queue[w] : queue[w][i] = n)
             ~> ((\E i \in DOMAIN observed[w] : observed[w][i] = n)
                    \/ watcherClosed[w])

\* two watchers of the same file both ran their callbacks for two successive
\* writes
ChangeReachesWitness ==
    /\ version = 2
    /\ \A w \in Watchers :
          /\ ~watcherClosed[w]
          /\ \E i, j \in DOMAIN observed[w] :
                i < j /\ observed[w][i] = 1 /\ observed[w][j] = 2

\* C12: every accept(c) makes one publish: the message with body c is queued
\* once for every consumer registered on the publisher's address, whatever
\* was published before, and for no consumer of another address; every
\* queued message reaches its consumer's handler.
AcceptPublishesAll ==
    /\ [][\A c \in AcceptInputs :
            AcceptCall(c) =>
               /\ npublished' = npublished + 1
               /\ \A s \in Subscribers :
                     inbox'[s] = IF registered[s] = address
                                 THEN Append(inbox[s],
                                             [body |-> c, source |-> "accept"])
                                 ELSE inbox[s]]_vars
    /\ [](\A s \in Subscribers :
             registered[s] # address => inbox[s] = <<>> /\ received[s] = <<>>)
    /\ \A s \in Subscribers : \A k \in 1..MaxPublishes :
          (Len(received[s]) + Len(inbox[s]) >= k) ~> (Len(received[s]) >= k)

\* a consumer on the publisher's address was handed the same contract twice
\* by two accept calls
AcceptPublishesWitness ==
    \E s \in Subscribers :
        /\ registered[s] = address
        /\ Len(received[s]) = 2
        /\ received[s][1] = received[s][2]
        /\ received[s][1].source = "accept"
        /\ received[s][1].body # EmptyContract
        /\ npublished = 2

\* C13: every creation, update or deletion of the contract config map
\* (DataPlaneConfigMapNamespace, ContractConfigMapName) calls globalResync,
\* which enqueues every sink; an event of any other config map does not.
ConfigMapWriteResyncs ==
    lastEvent.informer = "configmap" =>
        lastEvent.resynced = lastEvent.accepted

\* C14: when GetOrCreateDataPlaneConfigMap fails in NewController the process
\* terminates with the fatal log, the reconciler implementation is not
\* created, no informer event handler is registered, and from then on no
\* event is handled and no sink is enqueued or reconciled.
FatalStartupFailure ==
    /\ [](fatalLog = "Failed to get or create data plane config map" =>
             /\ sinkCtl = "terminated"
             /\ ~implCreated
             /\ handlers = {}
             /\ workqueue = {}
             /\ lastEvent = NoEvent
             /\ \A k \in Sinks : ~ENABLED Reconcile(k))
    /\ [][sinkCtl = "terminated" => UNCHANGED sinkVars]_vars

\* the controller was constructed while the config map could not be obtained
FatalStartupWitness ==
    /\ fatalLog = "Failed to get or create data plane config map"
    /\ sinkCtl = "terminated"

\* C15: every add, update or delete event of a secret named
\* sinkIngressTLSSecretName hands the bundle getCaCerts has just returned to
\* Prober.RotateRootCaCerts, also when the read failed, the process goes on,
\* and only then globalResync enqueues every sink; a reconcile caused by the
\* rotation probes under the rotated bundle.
RotationBeforeResync ==
    /\ [][\A kind \in EventKinds, obj \in Secrets, certs \in Bundles :
            (SecretEvent(kind, obj, certs)
                /\ obj.name = sinkIngressTLSSecretName) =>
                /\ proberCa' = certs
                /\ rotatePc' = "resync"
                /\ sinkCtl' = "running"
                /\ UNCHANGED workqueue]_vars
    /\ [][RotateResync =>
             /\ proberCa = newCerts
             /\ sinkStore \subseteq workqueue']_vars
    /\ [](~staleProbe)
    /\ (rotatePc = "resync") ~> (rotatePc = "idle")

\* the read of the CA certs failed, the empty bundle was rotated in and the
\* resync that followed enqueued a sink
RotationWitness ==
    /\ rotatePc = "idle"
    /\ sinkCtl = "running"
    /\ proberCa = ""
    /\ \E k \in workqueue : mustSee[k] = ""

\* C16: close() can be called in every state, before any accept and after an
\* earlier close() included; every call publishes the empty contract and
\* throws nothing, and after a repeated close() the last contract delivered
\* to a subscriber is the empty one, as it was after the first close().
CloseIdempotent ==
    /\ [](npublished < MaxPublishes => ENABLED close)
    /\ [][close =>
             /\ closed'
             /\ \A s \in Subscribers :
                   inbox'[s] =
                      IF registered[s] = address
                      THEN Append(inbox[s], [body |-> EmptyContract,
                                             source |-> "close"])
                      ELSE inbox[s]]_vars
    /\ [](\A s \in atClose :
             (closed /\ afterClose \subseteq {"close"} /\ inbox[s] = <<>>)
             => received[s][Len(received[s])].body = EmptyContract)

\* close() was called twice before any accept and the subscriber was
\* delivered the empty contract both times
CloseTwiceWitness ==
    \E s \in atClose :
        /\ afterClose = {"close"}
        /\ npublished = 2
        /\ inbox[s] = <<>>
        /\ Len(received[s]) = 2
        /\ \A i \in 1..2 : received[s][i] = [body |-> EmptyContract,
                                             source |-> "close"]

\* C17: whatever the broker lister holds, filterTriggers accepts every
\* Trigger that carries FinalizerName among its finalizers; so a trigger of
\* the store that carries it is enqueued by its own informer events, by every
\* global resync and by every leader promotion, also after its broker was
\* deleted or changed class.
FinalizerKeepsReconcilable ==
    /\ \A t \in TriggerKeys, f \in FinalizerLists :
          FinalizerName \in {f[i] : i \in DOMAIN f} =>
              filterTriggers(brokers, TriggerObject("Trigger", t, f))
    /\ \A t \in triggerStore :
          (/\ FinalizerName \in {finalizers[t][i] : i \in DOMAIN finalizers[t]}
           /\ \/ lastHandler.handler \in {"resync", "promote"}
              \/ lastHandler.handler = "trigger" /\ lastHandler.name = t)
          => enqueued[t] = 1

\* a global resync enqueued a trigger that carries the finalizer while the
\* lister no longer holds a Kafka-class broker for it
FinalizerWitness ==
    /\ lastHandler.handler = "resync"
    /\ \E t \in triggerStore :
          /\ finalizers[t] = <<"foregroundDeletion", FinalizerName>>
          /\ TriggerMeta[t].broker = "b1"
          /\ brokers[<<TriggerMeta[t].namespace, "b1">>]
                \in {"absent", "MTChannelBasedBroker"}
          /\ enqueued[t] = 1

\* C18: an object that does not carry FinalizerName is accepted by
\* filterTriggers exactly when it is a Trigger and the lister holds, in the
\* trigger's namespace, a broker named Spec.Broker whose class annotation is
\* the Kafka broker class; a non-Trigger object, a broker the lister does not
\* find, a broker without class annotation and a broker of another class are
\* each rejected.
FilterWithoutFinalizer ==
    \A kind \in ObjectKinds("Trigger"), t \in TriggerKeys,
       f \in {<<>>, <<"foregroundDeletion">>} :
        LET obj == TriggerObject(kind, t, f)
            found == IF TriggerMeta[t].broker = "b1"
                     THEN brokers[<<TriggerMeta[t].namespace, "b1">>]
                     ELSE "absent"
        IN  /\ filterTriggers(brokers, obj)
                 <=> (kind = "Trigger" /\ found = "Kafka")
            /\ kind # "Trigger" => ~filterTriggers(brokers, obj)
            /\ found \in {"absent", "none", "MTChannelBasedBroker"}
                 => ~filterTriggers(brokers, obj)

\* a trigger without the finalizer was added and enqueued because its broker
\* is of the Kafka class, while the trigger of the same broker name in the
\* other namespace, where the broker has no class annotation, is rejected
FilterWithoutFinalizerWitness ==
    /\ lastHandler = [handler |-> "trigger", namespace |-> "default",
                      name |-> "t1", accepted |-> TRUE, listErr |-> FALSE]
    /\ {"t1", "t3"} \subseteq triggerStore
    /\ finalizers["t1"] = <<>> /\ finalizers["t3"] = <<>>
    /\ enqueued["t1"] = 1
    /\ brokers[<<"default", "b1">>] = "Kafka"
    /\ brokers[<<"knative-eventing", "b1">>] = "none"
    /\ ~filterTriggers(brokers, TriggerObject("Trigger", "t3", <<>>))

\* C19: an add, update or delete event of a Broker of the Kafka class calls
\* enqueue exactly once for every trigger of the store that is in the
\* broker's namespace and has the broker's name as broker-name label, and for
\* no other trigger; when the object is not a Broker or listing the triggers
\* fails, enqueue is not called and the handler just returns.
BrokerEventFansOut ==
    /\ [][lastHandler'.handler = "broker" =>
            \A kind \in EventKinds, objKind \in ObjectKinds("Broker"),
               class \in BrokerClasses :
               LET obj == [kind |-> objKind, class |-> class,
                           namespace |-> lastHandler'.namespace,
                           name |-> lastHandler'.name]
                   listErr == lastHandler'.listErr
               IN  BrokerEvent(kind, obj, listErr) =>
                      /\ (objKind = "Broker" /\ class = "Kafka" /\ ~listErr) =>
                            \A t \in TriggerKeys :
                               enqueued'[t] =
                                  IF /\ t \in triggerStore
                                     /\ TriggerMeta[t].namespace = obj.namespace
                                     /\ TriggerMeta[t].label = obj.name
                                  THEN 1 ELSE 0
                      /\ (objKind # "Broker" \/ listErr) =>
                            /\ enqueued' = NoneEnqueued
                            /\ UNCHANGED <<triggerStore, finalizers>>]_vars
    /\ [](\A obj \in BrokerObjects :
             obj.kind # "Broker" => enqueueTriggers(obj, FALSE) = NoneEnqueued)

\* with all three triggers in the store, an event of the Kafka broker b1 of
\* namespace default enqueued t1 once and neither t2 (another broker) nor t3
\* (another namespace)
BrokerEventWitness ==
    /\ lastHandler = [handler |-> "broker", namespace |-> "default",
                      name |-> "b1", accepted |-> TRUE, listErr |-> FALSE]
    /\ triggerStore = TriggerKeys
    /\ enqueued = [NoneEnqueued EXCEPT !["t1"] = 1]

\* C20: a parsed contract whose generation is the generation of the contract
\* the consumer was handed last is dropped, whatever its content: the
\* consumer keeps the earlier contract of that generation also when the
\* content differs.
DedupByGenerationOnly ==
    (/\ run.payload.kind = "ok"
     /\ run.payload.contract.generation = run.prev.generation)
    => /\ run.delivered = 0
       /\ lastContract = run.prev.generation
             \/ \E w \in threads : pc[w] \in {"store", "accept"}

\* the consumer holds a contract of some generation and a payload of the same
\* generation with other content was read and dropped
DedupByGenerationWitness ==
    /\ run.payload.kind = "ok"
    /\ run.payload.contract.generation = run.prev.generation
    /\ run.payload.contract.resources # run.prev.resources
    /\ run.delivered = 0
    /\ npublished = 1
    /\ \A w \in threads : pc[w] = "idle"

ServiceNameShape ==
    /\ \A e \in services \cup
                 (IF lastMake.err \/ lastMake = NoMake THEN {}
                  ELSE {[owner |-> lastMake.kc, name |-> lastMake.svc.name]}) :
          /\ Len(e.owner.name) + 11 <= 63
                 => e.name = e.owner.name \o "-kn-channel"
          /\ Len(e.owner.name) + 11 > 63 => e.name = e.owner.name
          /\ Len(e.owner.name) <= 63 => Len(e.name) <= 63
    /\ \A e1, e2 \in services :
          e1.owner.name = e2.owner.name => e1.name = e2.name

\* a name of 52 characters got the suffix (63 characters), and a name of 53
\* characters was returned as it is
ServiceNameWitness ==
    /\ ~lastMake.err
    /\ Len(lastMake.kc.name) = 53
    /\ lastMake.svc.name = lastMake.kc.name
    /\ \E e \in services :
          /\ Len(e.owner.name) = 52
          /\ Len(e.name) = 63
          /\ e.namespace = lastMake.svc.namespace

\* C23: two channels with distinct names of at most 63 characters never get
\* the same service name, so two channels of one namespace never own the same
\* service.
ServiceNamesUnique ==
    \A e1, e2 \in services :
        (/\ e1.owner.name # e2.owner.name
         /\ Len(e1.owner.name) <= 63
         /\ Len(e2.owner.name) <= 63)
        => /\ e1.name # e2.name
           /\ e1.namespace = e2.namespace
                 => <<e1.namespace, e1.name>> # <<e2.namespace, e2.name>>

TypeOK ==
    /\ lastContract \in -1..MaxGeneration
    /\ \A w \in Watchers :
          pc[w] \in {"idle", "load", "store", "accept"}
    /\ \A s \in Subscribers : registered[s] \in Addresses \cup {"none"}

====
